---- MODULE Spec2Model ----
(***************************************************************************)
(* Model of src/app.py: the profile search (search_linkedin_profiles) and   *)
(* the outreach batch (main's processing loop around                        *)
(* process_linkedin_profile and the directory calls it makes).              *)
(*                                                                          *)
(* Python strings are sequences of one-character strings, so that the       *)
(* regular expressions, urlparse, str.replace and str.capitalize are        *)
(* computed character by character.                                         *)
(***************************************************************************)
EXTENDS Integers, Sequences, FiniteSets, TLC

(***************************************************************************)
(* Bounds                                                                   *)
(***************************************************************************)
\* largest value of num_results explored (st.number_input, min_value=1)
MaxNumResults == 3
\* largest number of URLs one search() call returns
MaxHits == 3
\* largest number of profile URLs in one batch
MaxBatch == 2
\* largest length of the list kept in st.session_state['found_profiles']
MaxStored == 3

(***************************************************************************)
(* Characters and string helpers                                            *)
(***************************************************************************)
LOWER == <<"a", "b", "c", "d", "e", "f", "g", "h", "i", "j", "k", "l", "m", "n", "o", "p", "q", "r", "s", "t", "u", "v", "w", "x", "y", "z">>
UPPER == <<"A", "B", "C", "D", "E", "F", "G", "H", "I", "J", "K", "L", "M", "N", "O", "P", "Q", "R", "S", "T", "U", "V", "W", "X", "Y", "Z">>

IsLower(c) == \E k \in 1..26 : LOWER[k] = c
IsUpper(c) == \E k \in 1..26 : UPPER[k] = c
IsAlpha(c) == IsLower(c) \/ IsUpper(c)
IsSpace(c) == c \in {" ", "\t", "\n", "\r"}

ToUpper(c) == IF IsLower(c) THEN UPPER[CHOOSE k \in 1..26 : LOWER[k] = c] ELSE c
ToLower(c) == IF IsUpper(c) THEN LOWER[CHOOSE k \in 1..26 : UPPER[k] = c] ELSE c

MinOf(S) == CHOOSE x \in S : \A y \in S : x <= y
MaxOf(S) == CHOOSE x \in S : \A y \in S : x >= y

\* s[p:] starts with lit (1-based p)
StartsAt(s, p, lit) ==
    /\ p >= 1
    /\ p + Len(lit) - 1 <= Len(s)
    /\ SubSeq(s, p, p + Len(lit) - 1) = lit

\* s[p:] (1-based p)
From(s, p) == SubSeq(s, p, Len(s))

\* first index >= p whose character satisfies stop, or Len(s)+1
FirstIn(s, p, stopChars) ==
    LET found == {k \in p..Len(s) : s[k] \in stopChars}
    IN  IF found = {} THEN Len(s) + 1 ELSE MinOf(found)

\* str.strip(): leading and trailing whitespace removed
Strip(s) ==
    LET keep == {k \in 1..Len(s) : ~IsSpace(s[k])}
    IN  IF keep = {} THEN <<>> ELSE SubSeq(s, MinOf(keep), MaxOf(keep))

(***************************************************************************)
(* String literals of the program                                           *)
(***************************************************************************)
HTTP == <<"h", "t", "t", "p", ":", "/", "/">>
HTTPS == <<"h", "t", "t", "p", "s", ":", "/", "/">>
LINKEDIN_IN == <<"l", "i", "n", "k", "e", "d", "i", "n", ".", "c", "o", "m", "/", "i", "n", "/">>
LINKEDIN_COMPANY == <<"l", "i", "n", "k", "e", "d", "i", "n", ".", "c", "o", "m", "/", "c", "o", "m", "p", "a", "n", "y", "/">>
IN_SEG == <<"/", "i", "n", "/">>

(***************************************************************************)
(* profile_pattern = (https?://.*?linkedin\.com/in/[^/\s]+)/?(?:\s|$)       *)
(***************************************************************************)
\* position after "https?://" when it matches at s, else 0
SchemeEnd(url, s) ==
    IF StartsAt(url, s, HTTP) THEN s + Len(HTTP)
    ELSE IF StartsAt(url, s, HTTPS) THEN s + Len(HTTPS)
    ELSE 0

\* end (exclusive) of the greedy run [^/\s]+ starting at p
RunEnd(url, p) == FirstIn(url, p, {"/", " ", "\t", "\n", "\r"})

\* [^/\s]+ /? (?:\s|$) matches at p: the run is non-empty and is followed by
\* the end, by whitespace, or by one slash and then the end or whitespace
TailMatches(url, p) ==
    LET e == RunEnd(url, p)
    IN  /\ e > p
        /\ \/ e > Len(url)
           \/ IsSpace(url[e])
           \/ /\ url[e] = "/"
              /\ (e + 1 > Len(url) \/ IsSpace(url[e + 1]))

\* positions q where the lazy .*? can stop: no newline skipped, the literal
\* linkedin.com/in/ is at q and the tail matches after it
LazyStops(url, s) ==
    {q \in SchemeEnd(url, s)..Len(url) :
        /\ StartsAt(url, q, LINKEDIN_IN)
        /\ TailMatches(url, q + Len(LINKEDIN_IN))
        /\ \A k \in SchemeEnd(url, s)..(q - 1) : url[k] # "\n"}

MatchStarts(url) ==
    {s \in 1..Len(url) : SchemeEnd(url, s) # 0 /\ LazyStops(url, s) # {}}

\* profile_pattern.findall(url), cut to its first element: <<>> or <<group 1>>
\* (only matches[0] is used by the caller)
FindAllFirst(url) ==
    LET starts == MatchStarts(url)
    IN  IF starts = {} THEN <<>>
        ELSE LET s == MinOf(starts)
                 q == MinOf(LazyStops(url, s))
             IN  <<SubSeq(url, s, RunEnd(url, q + Len(LINKEDIN_IN)) - 1)>>

(***************************************************************************)
(* Python values that reach the outreach functions: a str, or something     *)
(* that is not a str (a number from a CSV column, None from a JSON null).   *)
(***************************************************************************)
PyStr(s) == [type |-> "str", val |-> s]
PyNone == [type |-> "NoneType", val |-> <<>>]
PyInt == [type |-> "int", val |-> <<"4", "2">>]

IsStr(v) == v.type = "str"
\* bool(v): None and the empty string are falsy, the int 42 and other strings truthy
Truthy(v) == v.type # "NoneType" /\ Len(v.val) > 0

(***************************************************************************)
(* urlparse(url).path                                                       *)
(***************************************************************************)
SchemeChars == {"+", "-", "."} \cup {"0", "1", "2", "3", "4", "5", "6", "7", "8", "9"}

\* index of the ":" ending a valid scheme, or 0
SchemeColon(s) ==
    LET c == FirstIn(s, 1, {":"})
    IN  IF /\ c <= Len(s)
           /\ c > 1
           /\ IsAlpha(s[1])
           /\ \A k \in 1..(c - 1) : IsAlpha(s[k]) \/ s[k] \in SchemeChars
        THEN c ELSE 0

\* the path component: scheme and //netloc removed, cut at the first # or ?
UrlPathKeepsQuery(s) ==
    LET afterScheme == From(s, SchemeColon(s) + 1)
    IN  IF StartsAt(afterScheme, 1, <<"/", "/">>)
        THEN From(afterScheme, FirstIn(afterScheme, 3, {"/", "?", "#"}))
        ELSE afterScheme
UrlPath(s) ==
    LET afterScheme == From(s, SchemeColon(s) + 1)
        afterNetloc == IF StartsAt(afterScheme, 1, <<"/", "/">>)
                       THEN From(afterScheme, FirstIn(afterScheme, 3, {"/", "?", "#"}))
                       ELSE afterScheme
    IN  SubSeq(afterNetloc, 1, FirstIn(afterNetloc, 1, {"#", "?"}) - 1)

(***************************************************************************)
(* extract_linkedin_username                                                *)
(***************************************************************************)
\* re.search(r'/in/([^/]+)', path): start positions of a match
UsernameStarts(path) ==
    {p \in 1..Len(path) :
        /\ StartsAt(path, p, IN_SEG)
        /\ p + Len(IN_SEG) <= Len(path)
        /\ path[p + Len(IN_SEG)] # "/"}

extract_linkedin_username(url) ==
    IF ~Truthy(url) \/ ~IsStr(url) THEN PyNone
    ELSE LET path == UrlPath(Strip(url.val))
         IN  IF UsernameStarts(path) = {} THEN PyNone
             ELSE LET p == MinOf(UsernameStarts(path)) + Len(IN_SEG)
                  IN  PyStr(SubSeq(path, p, FirstIn(path, p, {"/"}) - 1))

(***************************************************************************)
(* State                                                                    *)
(***************************************************************************)
VARIABLES
    \* search_linkedin_profiles
    num_results,      \* the cap passed by the caller
    profile_urls,     \* the accumulator
    i,                \* index of the targeted query (0-based, as enumerate)
    hits,             \* len(search_results) of the running query; the items
                      \* are drawn when the loop reaches them (the program
                      \* reads no item before its iteration)
    j,                \* index of the result item (0-based)
    s_pc,             \* position in search_linkedin_profiles
    issued,           \* the calls made to search(), in order, with their outcome
    returned,         \* the value returned by search_linkedin_profiles
    progress,         \* the last values given to progress_bar.progress, in
                      \* order: those of the last step and the one before them
    \* main's processing of a batch and process_linkedin_profile
    found_profiles,           \* st.session_state['found_profiles']
    linkedin_urls,            \* the batch: the values handed to the pipeline
    personalize,              \* the personalization checkbox
    message_text,             \* message template
    connection_text,          \* connection request template
    url_i,                    \* index of the profile in the batch (0-based)
    pc,                       \* position in the batch and in the pipeline
    result,                   \* the result dict of the running profile
    personalized_message,     \* text for send_message
    personalized_connection,  \* text for send_connection_request
    results,                  \* the result list of the batch
    calls,                    \* the requests made to the directory, in order:
                              \* the text sent and what the function returned
    summary                   \* the counters shown after the batch

searchVars == <<num_results, profile_urls, i, hits, j, s_pc, issued, returned, progress>>
outreachVars == <<found_profiles, linkedin_urls, personalize, message_text, connection_text, url_i, pc,
                  result, personalized_message, personalized_connection, results,
                  calls, summary>>
vars == <<searchVars, outreachVars>>

(***************************************************************************)
(* search_linkedin_profiles                                                 *)
(***************************************************************************)
\* the three targeted queries (lines 94-98) and the broader one (line 154),
\* named by their search operator; keyword and description do not steer the
\* control flow
queries == <<"site+description", "inurl+description", "intitle+description">>
broader_query == "site"

\* URLs the search provider may return
SearchUrls ==
    { HTTPS \o LINKEDIN_IN \o <<"b", "O", "b">>,
      HTTP \o LINKEDIN_IN \o <<"b", "O", "b">>,
      HTTPS \o LINKEDIN_IN \o <<"b", "O", "b", "/">>,
      HTTPS \o LINKEDIN_IN \o <<"b", "O", "b", "?", "t">>,
      HTTPS \o LINKEDIN_IN \o <<"a", "m", "y">>,
      HTTPS \o LINKEDIN_COMPANY \o <<"x">> }

\* profile_pattern.findall(url) for each of these URLs
Matches == {[url |-> url, matches |-> FindAllFirst(url)] : url \in SearchUrls}

Contains(list, x) == \E k \in 1..Len(list) : list[k] = x

\* lines 121-125 and 160-164: the accumulator after one result item
Accumulate(urls, url) ==
    LET matches == (CHOOSE m \in Matches : m.url = url).matches
    IN  IF matches # <<>> /\ ~Contains(urls, matches[1])
        THEN Append(urls, matches[1])
        ELSE urls

\* lines 129 and 168: len(profile_urls) >= num_results
CapReachedOffByOne(urls, n) == Len(urls) > n
CapReached(urls, n) == Len(urls) >= n

\* line 146: the handler's continue resumes the loop at the next index
HandlerRetries(k) == k
HandlerBreaks(k) == Len(queries)
HandlerNext(k) == k + 1

\* lines 175-177: the broader search's handler falls through to the return
BroadHandlerReraises == "raised"
BroadHandlerPc == "done"

\* progress values are fractions, compared exactly
Frac(n, d) == [num |-> n, den |-> d]
Leq(a, b) == a.num * b.den <= b.num * a.den
MinFrac(a, b) == IF Leq(a, b) THEN a ELSE b

\* line 116: (i) / len(queries) * 0.5
QueryProgress(k) == Frac(k, 2 * Len(queries))

\* lines 136-137: min(0.5 + (i + (j + 1) / len(search_results)) / len(queries) * 0.5, 0.9)
ItemProgress(k, item, n) ==
    MinFrac(Frac(n * Len(queries) + k * n + item + 1, 2 * Len(queries) * n), Frac(9, 10))

\* line 172: min(0.9 + (j + 1) / len(search_results) * 0.1, 0.99)
BroadItemProgress(item, n) ==
    MinFrac(Frac(9 * n + item + 1, 10 * n), Frac(99, 100))

\* progress_bar.progress(value): a step reports at most two values, so the
\* last three hold every pair of values reported one after the other
Report(reported, value) ==
    LET all == Append(reported, value)
    IN  IF Len(all) <= 3 THEN all ELSE SubSeq(all, Len(all) - 2, Len(all))

\* lines 132 and 185: progress_bar.progress(1.0) right before a return
AtReturn(reported, next_pc) ==
    IF next_pc = "done" THEN Report(reported, Frac(1, 1)) ELSE reported

\* lines 340-348: the result dict process_linkedin_profile starts from
NewResult(linkedin_url) ==
    [url |-> linkedin_url, username |-> PyNone, job_title |-> PyNone,
     provider_id |-> PyNone, action |-> "None", status |-> "None", error |-> PyNone]

\* the outreach variables while only the search runs
OutreachIdle ==
    /\ found_profiles = <<>>
    /\ linkedin_urls = <<>>
    /\ personalize = TRUE
    /\ message_text = <<>>
    /\ connection_text = <<>>
    /\ url_i = 0
    /\ pc = "idle"
    /\ result = NewResult(PyNone)
    /\ personalized_message = <<>>
    /\ personalized_connection = <<>>
    /\ results = <<>>
    /\ calls = <<>>
    /\ summary = <<>>

SearchInit ==
    /\ OutreachIdle
    /\ num_results \in 1..MaxNumResults
    /\ profile_urls = <<>>
    /\ i = 0
    /\ hits = 0
    /\ j = 0
    /\ s_pc = "targeted_query"
    /\ issued = <<>>
    /\ returned = <<>>
    /\ progress = <<Frac(0, 1)>>

\* the for loop of line 110 resumes at index k, or is exhausted and the
\* function goes on with line 149 and lines 179-187
LoopAtSkipsLast(k, urls) ==
    IF k < Len(queries) - 1
    THEN /\ s_pc' = "targeted_query"
         /\ i' = k
         /\ returned' = returned
    ELSE IF Len(urls) < num_results
    THEN /\ s_pc' = "broad_query"
         /\ i' = i
         /\ returned' = returned
    ELSE /\ s_pc' = "done"
         /\ i' = i
         /\ returned' = urls
LoopAt(k, urls) ==
    IF k < Len(queries)
    THEN /\ s_pc' = "targeted_query"
         /\ i' = k
         /\ returned' = returned
    ELSE IF Len(urls) < num_results
    THEN /\ s_pc' = "broad_query"
         /\ i' = i
         /\ returned' = returned
    ELSE /\ s_pc' = "done"
         /\ i' = i
         /\ returned' = urls

\* lines 110-118, search() raises; lines 142-146
TargetedQueryRaises ==
    /\ s_pc = "targeted_query"
    /\ issued' = Append(issued, [query |-> queries[i + 1], failed |-> TRUE])
    /\ LoopAt(HandlerNext(i), profile_urls)
    /\ progress' = AtReturn(Report(progress, QueryProgress(i)), s_pc')
    /\ UNCHANGED <<num_results, profile_urls, hits, j>>
    /\ UNCHANGED outreachVars

\* lines 110-118, search() returns a list
TargetedQueryReturns ==
    /\ s_pc = "targeted_query"
    /\ \E n \in 0..MaxHits :
        /\ issued' = Append(issued, [query |-> queries[i + 1], failed |-> FALSE])
        /\ hits' = n
        /\ j' = 0
        /\ IF n = 0
           THEN LoopAt(i + 1, profile_urls)
           ELSE /\ s_pc' = "targeted_items"
                /\ UNCHANGED <<i, returned>>
    /\ progress' = AtReturn(Report(progress, QueryProgress(i)), s_pc')
    /\ UNCHANGED <<num_results, profile_urls>>
    /\ UNCHANGED outreachVars

\* lines 119-140: one iteration over the results of a targeted query
TargetedItem ==
    /\ s_pc = "targeted_items"
    /\ \E url \in SearchUrls :
       LET urls == Accumulate(profile_urls, url)
       IN  /\ profile_urls' = urls
           /\ IF urls # profile_urls /\ CapReached(urls, num_results)
              THEN /\ s_pc' = "done"
                   /\ returned' = urls
                   /\ progress' = AtReturn(progress, "done")
                   /\ UNCHANGED <<i, j>>
              ELSE /\ IF j + 1 < hits
                      THEN /\ j' = j + 1
                           /\ UNCHANGED <<s_pc, i, returned>>
                      ELSE /\ j' = j
                           /\ LoopAt(i + 1, urls)
                   /\ progress' = AtReturn(Report(progress, ItemProgress(i, j, hits)), s_pc')
    /\ UNCHANGED <<num_results, hits, issued>>
    /\ UNCHANGED outreachVars

\* lines 153-158, search() raises; lines 175-187
BroadQueryRaises ==
    /\ s_pc = "broad_query"
    /\ issued' = Append(issued, [query |-> broader_query, failed |-> TRUE])
    /\ s_pc' = BroadHandlerPc
    /\ returned' = profile_urls
    /\ progress' = AtReturn(progress, BroadHandlerPc)
    /\ UNCHANGED <<num_results, profile_urls, i, hits, j>>
    /\ UNCHANGED outreachVars

\* lines 153-158, search() returns a list
BroadQueryReturns ==
    /\ s_pc = "broad_query"
    /\ \E n \in 0..MaxHits :
        /\ issued' = Append(issued, [query |-> broader_query, failed |-> FALSE])
        /\ hits' = n
        /\ j' = 0
        /\ IF n = 0
           THEN /\ s_pc' = "done"
                /\ returned' = profile_urls
           ELSE /\ s_pc' = "broad_items"
                /\ returned' = returned
    /\ progress' = AtReturn(progress, s_pc')
    /\ UNCHANGED <<num_results, profile_urls, i>>
    /\ UNCHANGED outreachVars

\* lines 159-173 and 179-187: one iteration over the broader results
BroadItem ==
    /\ s_pc = "broad_items"
    /\ \E url \in SearchUrls :
       LET urls == Accumulate(profile_urls, url)
       IN  /\ profile_urls' = urls
           /\ IF \/ urls # profile_urls /\ CapReached(urls, num_results)
                 \/ j + 1 >= hits
              THEN /\ s_pc' = "done"
                   /\ returned' = urls
                   /\ j' = j
              ELSE /\ j' = j + 1
                   /\ UNCHANGED <<s_pc, returned>>
           /\ progress' =
                 IF urls # profile_urls /\ CapReached(urls, num_results)
                 THEN AtReturn(progress, "done")
                 ELSE AtReturn(Report(progress, BroadItemProgress(j, hits)), s_pc')
    /\ UNCHANGED <<num_results, i, hits, issued>>
    /\ UNCHANGED outreachVars

SearchNext ==
    \/ TargetedQueryRaises
    \/ TargetedQueryReturns
    \/ TargetedItem
    \/ BroadQueryRaises
    \/ BroadQueryReturns
    \/ BroadItem

SearchSpec == SearchInit /\ [][SearchNext]_vars

\* the function is sequential code: while it has a next step, it takes it
\* (search() returns or raises, time.sleep returns)
SearchFairSpec == SearchSpec /\ WF_vars(SearchNext)

(***************************************************************************)
(* Directory responses                                                      *)
(***************************************************************************)
\* the parsed JSON body of GET /api/v1/users/{username}: a dict with an
\* optional provider_id, an optional headline ("" when absent, as data.get
\* defaults it) and an experience list (empty when absent), or a JSON value
\* that is no dict
JsonDict(has_id, id, headline, experience) ==
    [is_dict |-> TRUE, has_provider_id |-> has_id, provider_id |-> id,
     headline |-> headline, experience |-> experience]
JsonList ==
    [is_dict |-> FALSE, has_provider_id |-> FALSE, provider_id |-> PyNone,
     headline |-> PyStr(<<>>), experience |-> <<>>]

ENG == <<"E", "n", "g">>
LEAD == <<"L", "e", "a", "d">>
PROFESSIONAL == <<"P", "r", "o", "f", "e", "s", "s", "i", "o", "n", "a", "l">>
P_88 == <<"p", "_", "8", "8">>

WithTitle(title) == <<[has_title |-> TRUE, title |-> title]>>
NoTitle == <<[has_title |-> FALSE, title |-> PyNone]>>

\* outcomes of requests.get / requests.post followed by raise_for_status:
\* a 2xx response, a non-2xx response (HTTPError carrying the response), or
\* a RequestException without a response (str(e) may be empty)
Ok(json) == [kind |-> "ok", status |-> 200, str_e |-> <<>>, text |-> <<>>, json |-> json]
HttpError(code) ==
    [kind |-> "http_error", status |-> code, str_e |-> <<"HTTPError">>,
     text |-> <<"body">>, json |-> JsonList]
NetworkError(msg) ==
    [kind |-> "network_error", status |-> 0, str_e |-> msg, text |-> <<>>, json |-> JsonList]

ResolveResponses ==
    { Ok(JsonDict(TRUE, PyStr(P_88), PyStr(<<>>), <<>>)),
      Ok(JsonDict(FALSE, PyNone, PyStr(LEAD), <<>>)),
      Ok(JsonDict(TRUE, PyNone, PyStr(<<>>), <<>>)),
      Ok(JsonList),
      HttpError(404),
      NetworkError(<<"Connection aborted.">>),
      NetworkError(<<>>) }

JobTitleResponses ==
    { Ok(JsonDict(TRUE, PyStr(P_88), PyStr(LEAD), WithTitle(PyStr(ENG)))),
      Ok(JsonDict(TRUE, PyStr(P_88), PyStr(LEAD), WithTitle(PyNone))),
      Ok(JsonDict(TRUE, PyStr(P_88), PyStr(LEAD), NoTitle)),
      Ok(JsonDict(TRUE, PyStr(P_88), PyStr(<<>>), <<>>)),
      Ok(JsonList),
      HttpError(500) }

SendResponses ==
    { Ok(JsonList), HttpError(403), NetworkError(<<"Connection aborted.">>) }

\* bool(e.response) in "hasattr(e, 'response') and e.response": a response
\* object is truthy only when its status is below 400, and there is none
\* when the request never got an answer
ResponseTruthy(resp) == resp.kind = "http_error" /\ resp.status < 400

(***************************************************************************)
(* extract_job_title                                                        *)
(***************************************************************************)
extract_job_title(resp) ==
    IF resp.kind # "ok" \/ ~resp.json.is_dict THEN PyStr(PROFESSIONAL)
    ELSE LET headline == resp.json.headline
             experience == resp.json.experience
         IN  IF Len(experience) > 0 /\ experience[1].has_title
             THEN experience[1].title
             ELSE IF Truthy(headline) THEN headline
             ELSE PyStr(PROFESSIONAL)

(***************************************************************************)
(* get_user_provider_id: [raised, provider_id, error]                       *)
(***************************************************************************)
\* lines 274-278 and 330-333: str(e), with the response body when e.response
\* is truthy
ErrorMsg(resp) ==
    IF ResponseTruthy(resp) THEN resp.str_e \o <<": ">> \o resp.text ELSE resp.str_e

MISSING_PROVIDER_ID == <<"Could not find provider_id in the response">>

\* lines 269-272
ProviderIdAcceptedUnchecked(provider_id) ==
    [raised |-> FALSE, provider_id |-> provider_id, error |-> PyNone]
ProviderIdChecked(provider_id) ==
    IF ~Truthy(provider_id)
    THEN [raised |-> FALSE, provider_id |-> PyNone, error |-> PyStr(MISSING_PROVIDER_ID)]
    ELSE [raised |-> FALSE, provider_id |-> provider_id, error |-> PyNone]

get_user_provider_id(resp) ==
    IF resp.kind # "ok"
    THEN [raised |-> FALSE, provider_id |-> PyNone, error |-> PyStr(ErrorMsg(resp))]
    ELSE IF ~resp.json.is_dict
    THEN [raised |-> TRUE, provider_id |-> PyNone, error |-> PyNone]
    ELSE ProviderIdChecked(IF resp.json.has_provider_id
                           THEN resp.json.provider_id ELSE PyNone)

(***************************************************************************)
(* send_message, send_connection_request: [success, text]                   *)
(***************************************************************************)
send_message(resp) ==
    IF resp.kind = "ok"
    THEN [success |-> TRUE, text |-> <<"Message sent successfully">>]
    ELSE IF ResponseTruthy(resp) /\ resp.status \in {400, 403}
    THEN [success |-> FALSE, text |-> <<"Failed to send message: ">> \o resp.text]
    ELSE [success |-> FALSE, text |-> <<"Error sending message: ">> \o resp.str_e]

send_connection_request(resp) ==
    IF resp.kind = "ok"
    THEN [success |-> TRUE, text |-> <<"Connection request sent successfully">>]
    ELSE [success |-> FALSE,
          text |-> <<"Error sending connection request: ">> \o ErrorMsg(resp)]

(***************************************************************************)
(* Personalization: str.capitalize and str.replace                          *)
(***************************************************************************)
NAME_PH == <<"{", "n", "a", "m", "e", "}">>
JOB_PH == <<"{", "j", "o", "b", "_", "t", "i", "t", "l", "e", "}">>

\* s.capitalize(): first character upper-cased, the others lower-cased
CapitalizeFirstOnly(s) ==
    IF s = <<>> THEN s ELSE <<ToUpper(s[1])>> \o Tail(s)
Capitalize(s) ==
    IF s = <<>> THEN s
    ELSE <<ToUpper(s[1])>> \o [k \in 1..(Len(s) - 1) |-> ToLower(s[k + 1])]

\* s.replace(old, new): every non-overlapping occurrence, left to right
RECURSIVE Replace(_, _, _)
Replace(s, old, new) ==
    IF Len(s) < Len(old) THEN s
    ELSE IF StartsAt(s, 1, old) THEN new \o Replace(From(s, Len(old) + 1), old, new)
    ELSE <<s[1]>> \o Replace(Tail(s), old, new)

\* lines 374-375 and 377-378, for a job title that is a str
Personalized(template, username, job_title) ==
    Replace(Replace(template, NAME_PH, Capitalize(username)), JOB_PH, job_title)

(***************************************************************************)
(* process_linkedin_profile and the batch loop of main                      *)
(***************************************************************************)
T_PLAIN == <<"H", "e", "l", "l", "o">>
T_BOTH == <<"H", "i", " ", "{", "n", "a", "m", "e", "}", ",", " ", "{", "j", "o", "b", "_", "t", "i", "t", "l", "e", "}", " ", "{", "n", "a", "m", "e", "}", "}">>
T_SPLIT == <<"{", "j", "o", "b", "_", "t", "i", "t", "l", "e", "{", "n", "a", "m", "e", "}">>
Templates == {T_PLAIN, T_BOTH, T_SPLIT}

\* values a batch may hold: a profile URL, a URL that is no profile, the
\* empty string and a value that is no string
URL_BOB == HTTPS \o LINKEDIN_IN \o <<"b", "O", "b">>
URL_BRACE == HTTP \o LINKEDIN_IN \o <<"}", "/">>
URL_COMPANY == HTTPS \o LINKEDIN_COMPANY \o <<"x">>
BatchValues == {PyStr(URL_BOB), PyStr(URL_COMPANY), PyStr(<<>>), PyInt}

BatchesUpTo(n) == UNION {[1..k -> BatchValues] : k \in 0..n}

\* f"Could not extract username from URL: {linkedin_url}"
ExtractError(linkedin_url) ==
    PyStr(<<"Could not extract username from URL: ">> \o linkedin_url.val)

\* line 369: with personalization the job title is fetched before the sends
PersonalizeStepAlways(p) == "job_title"
PersonalizeStep(p) == IF p THEN "job_title" ELSE "send_message"

\* line 386: if message_success
MessageSucceededNever(sent) == FALSE
MessageSucceeded(sent) == sent.success

\* lines 391-392: a failed message is followed by the connection request
MessageFailedRetries == "send_message"
MessageFailedPc == "send_connection_request"

\* lines 386-389
MessageSuccessKeepsNoAction(r) == [r EXCEPT !.status = "Success"]
OnMessageSuccess(r) == [r EXCEPT !.action = "Message", !.status = "Success"]

\* lines 395-401
OnConnectResultDropsError(r, sent) ==
    [r EXCEPT !.action = "Connection Request",
              !.status = IF sent.success THEN "Success" ELSE "Failed"]
OnConnectResult(r, sent) ==
    IF sent.success
    THEN [r EXCEPT !.action = "Connection Request", !.status = "Success"]
    ELSE [r EXCEPT !.action = "Connection Request", !.status = "Failed",
                   !.error = PyStr(sent.text)]

\* lines 352 and 361: the early returns
ExtractFailedNever(username) == FALSE
ExtractFailed(username) == ~Truthy(username)

\* lines 619-622
IsSuccess(r) == r.status = "Success"
IsMessageSuccess(r) == r.action = "Message" /\ r.status = "Success"
IsConnectionAnyStatus(r) == r.action = "Connection Request"
IsConnectionSuccess(r) == r.action = "Connection Request" /\ r.status = "Success"
Summarize(list) ==
    [total |-> Len(list),
     success_count |-> Cardinality({k \in 1..Len(list) : IsSuccess(list[k])}),
     message_count |-> Cardinality({k \in 1..Len(list) : IsMessageSuccess(list[k])}),
     connection_count |->
         Cardinality({k \in 1..Len(list) : IsConnectionSuccess(list[k])})]

SearchIdle ==
    /\ num_results = 1
    /\ profile_urls = <<>>
    /\ i = 0
    /\ hits = 0
    /\ j = 0
    /\ s_pc = "idle"
    /\ issued = <<>>
    /\ returned = <<>>
    /\ progress = <<>>

\* the state when the process button is pressed (line 590)
BatchStart ==
    /\ SearchIdle
    /\ found_profiles = <<>>
    /\ url_i = 0
    /\ pc = "button"
    /\ result = NewResult(PyNone)
    /\ personalized_message = <<>>
    /\ personalized_connection = <<>>
    /\ results = <<>>
    /\ calls = <<>>
    /\ summary = <<>>

Init ==
    /\ BatchStart
    /\ linkedin_urls \in BatchesUpTo(MaxBatch)
    /\ personalize \in BOOLEAN
    /\ message_text = T_BOTH
    /\ connection_text = T_SPLIT

\* process_linkedin_profile returns r to the loop of lines 603-611; after
\* the last profile, lines 613-629
ReturnResult(r) ==
    /\ results' = Append(results, r)
    /\ result' = r
    /\ url_i' = url_i + 1
    /\ IF url_i + 1 < Len(linkedin_urls)
       THEN /\ pc' = "profile"
            /\ summary' = summary
       ELSE /\ pc' = "done"
            /\ summary' = Summarize(Append(results, r))

\* an exception leaves process_linkedin_profile and the loop of main
Raise ==
    /\ pc' = "raised"
    /\ UNCHANGED <<url_i, results, summary>>

\* line 595: elif not linkedin_urls
BatchRejectedNever(urls) == FALSE
BatchRejected(urls) == Len(urls) = 0

\* lines 590-601: the button handler's guard on the batch; a loop over no
\* URL would go straight to the summary, whose success rate (line 627)
\* divides by len(results)
ProcessButton ==
    /\ pc = "button"
    /\ pc' = IF BatchRejected(linkedin_urls) THEN "rejected"
             ELSE IF Len(linkedin_urls) = 0 THEN "raised"
             ELSE "profile"
    /\ UNCHANGED <<found_profiles, linkedin_urls, personalize, message_text, connection_text, url_i,
                   result, personalized_message, personalized_connection, results,
                   calls, summary>>
    /\ UNCHANGED searchVars

\* lines 603-605 and 340-357: step 1, the username
StartProfile ==
    /\ pc = "profile"
    /\ LET linkedin_url == linkedin_urls[url_i + 1]
           username == extract_linkedin_username(linkedin_url)
       IN  IF ExtractFailed(username)
           THEN ReturnResult([NewResult(linkedin_url) EXCEPT
                                 !.error = ExtractError(linkedin_url),
                                 !.status = "Failed"])
           ELSE /\ result' = [NewResult(linkedin_url) EXCEPT !.username = username]
                /\ pc' = "resolve"
                /\ UNCHANGED <<url_i, results, summary>>
    /\ UNCHANGED <<found_profiles, linkedin_urls, personalize, message_text, connection_text,
                   personalized_message, personalized_connection, calls>>
    /\ UNCHANGED searchVars

\* lines 359-366 and, without personalization, lines 379-381
ResolveProviderId ==
    /\ pc = "resolve"
    /\ \E resp \in ResolveResponses :
       LET got == get_user_provider_id(resp)
       IN  /\ calls' = Append(calls, [op |-> "resolve", profile |-> url_i,
                                      kind |-> resp.kind,
                                      is_dict |-> resp.json.is_dict,
                                      has_provider_id |-> resp.json.has_provider_id,
                                      provider_id |-> got.provider_id,
                                      success |-> ~got.raised /\ ~Truthy(got.error),
                                      text |-> <<>>,
                                      reply |-> got.error.val])
           /\ IF got.raised
              THEN /\ Raise
                   /\ UNCHANGED <<result, personalized_message, personalized_connection>>
              ELSE IF Truthy(got.error)
              THEN /\ ReturnResult([result EXCEPT !.error = got.error, !.status = "Failed"])
                   /\ UNCHANGED <<personalized_message, personalized_connection>>
              ELSE /\ result' = [result EXCEPT !.provider_id = got.provider_id]
                   /\ UNCHANGED <<url_i, results, summary>>
                   /\ pc' = PersonalizeStep(personalize)
                   /\ IF personalize
                      THEN UNCHANGED <<personalized_message, personalized_connection>>
                      ELSE /\ personalized_message' = message_text
                           /\ personalized_connection' = connection_text
    /\ UNCHANGED <<found_profiles, linkedin_urls, personalize, message_text, connection_text>>
    /\ UNCHANGED searchVars

\* lines 369-378: the job title and the two personalized texts
FetchJobTitle ==
    /\ pc = "job_title"
    /\ \E resp \in JobTitleResponses :
       LET job_title == extract_job_title(resp)
       IN  /\ calls' = Append(calls, [op |-> "job_title", profile |-> url_i,
                                      kind |-> "any",
                                      is_dict |-> FALSE,
                                      has_provider_id |-> FALSE,
                                      provider_id |-> PyNone,
                                      success |-> TRUE,
                                      text |-> <<>>,
                                      reply |-> job_title.val])
           /\ result' = [result EXCEPT !.job_title = job_title]
           /\ IF ~IsStr(job_title)
              THEN \* str.replace raises TypeError on an argument that is no str
                   /\ Raise
                   /\ UNCHANGED <<personalized_message, personalized_connection>>
              ELSE /\ personalized_message' =
                          Personalized(message_text, result.username.val, job_title.val)
                   /\ personalized_connection' =
                          Personalized(connection_text, result.username.val, job_title.val)
                   /\ pc' = "send_message"
                   /\ UNCHANGED <<url_i, results, summary>>
    /\ UNCHANGED <<found_profiles, linkedin_urls, personalize, message_text, connection_text>>
    /\ UNCHANGED searchVars

\* lines 383-389: step 4, the message
SendMessage ==
    /\ pc = "send_message"
    /\ \E resp \in SendResponses :
       LET sent == send_message(resp)
       IN  /\ calls' = Append(calls, [op |-> "message", profile |-> url_i,
                                      kind |-> resp.kind,
                                      is_dict |-> FALSE,
                                      has_provider_id |-> FALSE,
                                      provider_id |-> result.provider_id,
                                      success |-> sent.success,
                                      text |-> personalized_message,
                                      reply |-> sent.text])
           /\ IF MessageSucceeded(sent)
              THEN ReturnResult(OnMessageSuccess(result))
              ELSE /\ pc' = MessageFailedPc
                   /\ UNCHANGED <<url_i, result, results, summary>>
    /\ UNCHANGED <<found_profiles, linkedin_urls, personalize, message_text, connection_text,
                   personalized_message, personalized_connection>>
    /\ UNCHANGED searchVars

\* lines 391-403: step 5, the connection request
SendConnectionRequest ==
    /\ pc = "send_connection_request"
    /\ \E resp \in SendResponses :
       LET sent == send_connection_request(resp)
       IN  /\ calls' = Append(calls, [op |-> "invite", profile |-> url_i,
                                      kind |-> resp.kind,
                                      is_dict |-> FALSE,
                                      has_provider_id |-> FALSE,
                                      provider_id |-> result.provider_id,
                                      success |-> sent.success,
                                      text |-> personalized_connection,
                                      reply |-> sent.text])
           /\ ReturnResult(OnConnectResult(result, sent))
    /\ UNCHANGED <<found_profiles, linkedin_urls, personalize, message_text, connection_text,
                   personalized_message, personalized_connection>>
    /\ UNCHANGED searchVars

Next ==
    \/ ProcessButton
    \/ StartProfile
    \/ ResolveProviderId
    \/ FetchJobTitle
    \/ SendMessage
    \/ SendConnectionRequest

Spec == Init /\ [][Next]_vars

\* one profile, every pair of templates, with and without personalization
PersonalizeInit ==
    /\ BatchStart
    /\ linkedin_urls \in {<<PyStr(URL_BOB)>>, <<PyStr(URL_BRACE)>>}
    /\ personalize \in BOOLEAN
    /\ message_text \in Templates
    /\ connection_text \in Templates

PersonalizeSpec == PersonalizeInit /\ [][Next]_vars

\* the ways one profile is written: either protocol, with or without www.,
\* with or without a trailing slash, with or without a query string
WWW == <<"w", "w", "w", ".">>
Usernames == {<<"b", "O", "b">>, <<"A", "m", "y", "-", "1">>}
QueryStrings ==
    {<<>>, <<"?", "t">>, <<"?", "r", "=", "/", "i", "n", "/", "z", "e", "d">>}
ProfileUrls(username) ==
    {scheme \o www \o LINKEDIN_IN \o username \o slash \o query :
        scheme \in {HTTP, HTTPS}, www \in {<<>>, WWW},
        slash \in {<<>>, <<"/">>}, query \in QueryStrings}

\* one value per batch: a profile URL in any of its forms, or a value that
\* is no profile URL
ExtractInit ==
    /\ BatchStart
    /\ linkedin_urls \in
          {<<PyStr(url)>> : url \in UNION {ProfileUrls(u) : u \in Usernames}}
          \cup {<<v>> : v \in BatchValues}
    /\ personalize \in BOOLEAN
    /\ message_text = T_PLAIN
    /\ connection_text = T_PLAIN

ExtractSpec == ExtractInit /\ [][Next]_vars

(***************************************************************************)
(* main's session state across reruns of the script                         *)
(***************************************************************************)
URL_AMY == HTTPS \o LINKEDIN_IN \o <<"a", "m", "y">>

\* lists a discovery may return (line 462), lines of the manual entry
\* (line 553) and values of the CSV column (line 568)
FoundLists == {<<>>, <<URL_BOB>>, <<URL_BOB, URL_AMY>>}
ManualEntries == {<<>>, <<PyStr(URL_AMY)>>, <<PyStr(URL_COMPANY)>>}
CsvColumns == {<<>>, <<PyInt>>, <<PyStr(URL_BOB)>>}

AsValues(list) == [k \in 1..Len(list) |-> PyStr(list[k])]

\* lines 526-569: linkedin_urls starts as a new list, or as the list object
\* kept in the session state (line 541), and is extended in place (lines
\* 555 and 569): [found_profiles, linkedin_urls] after the assembly
Assemble(stored, use_found, manual_urls, csv_urls) ==
    IF stored # <<>> /\ use_found
    THEN [found_profiles |-> stored \o manual_urls \o csv_urls,
          linkedin_urls |-> stored \o manual_urls \o csv_urls]
    ELSE [found_profiles |-> stored,
          linkedin_urls |-> manual_urls \o csv_urls]

SessionInit == SearchIdle /\ OutreachIdle

\* a rerun with the find button pressed: lines 454-466, then the outreach
\* tab's assembly of lines 526-569
FindProfiles ==
    /\ \E profiles \in FoundLists, use_found \in BOOLEAN,
          manual_urls \in ManualEntries, csv_urls \in CsvColumns :
          LET stored == IF profiles # <<>> THEN AsValues(profiles) ELSE found_profiles
              assembled == Assemble(stored, use_found, manual_urls, csv_urls)
          IN  /\ Len(assembled.found_profiles) <= MaxStored
              /\ returned' = profiles
              /\ found_profiles' = assembled.found_profiles
              /\ linkedin_urls' = assembled.linkedin_urls
    /\ UNCHANGED <<num_results, profile_urls, i, hits, j, s_pc, issued, progress>>
    /\ UNCHANGED <<personalize, message_text, connection_text, url_i, pc, result,
                   personalized_message, personalized_connection, results, calls,
                   summary>>

\* a rerun caused by any other widget: the assembly of lines 526-569
Rerun ==
    /\ \E use_found \in BOOLEAN, manual_urls \in ManualEntries, csv_urls \in CsvColumns :
          LET assembled == Assemble(found_profiles, use_found, manual_urls, csv_urls)
          IN  /\ Len(assembled.found_profiles) <= MaxStored
              /\ found_profiles' = assembled.found_profiles
              /\ linkedin_urls' = assembled.linkedin_urls
    /\ UNCHANGED searchVars
    /\ UNCHANGED <<personalize, message_text, connection_text, url_i, pc, result,
                   personalized_message, personalized_connection, results, calls,
                   summary>>

SessionNext ==
    \/ FindProfiles
    \/ Rerun

SessionSpec == SessionInit /\ [][SessionNext]_vars

(***************************************************************************)
(* Properties of search_linkedin_profiles                                   *)
(***************************************************************************)
AllFourFailed == Len(issued) = Len(queries) + 1 /\ \A k \in 1..Len(issued) : issued[k].failed

\* C2: the returned list never holds two entries with the same username
\* (the path segment after /in/), whatever the protocol, the trailing slash
\* or the query string of the URLs found.
C2_NoDuplicateUsernames ==
    s_pc = "done" =>
        \A a, b \in 1..Len(returned) :
            a # b => extract_linkedin_username(PyStr(returned[a]))
                        # extract_linkedin_username(PyStr(returned[b]))

\* C3: the accumulator never holds more than num_results entries, at any
\* point of the run, and neither does the returned list.
C3_AccumulatorWithinCap ==
    /\ Len(profile_urls) <= num_results
    /\ s_pc = "done" => Len(returned) <= num_results

\* C3 witness: a run with a failed query that ended with a full list of at
\* least two entries
C3_Witness ==
    /\ s_pc = "done"
    /\ num_results >= 2
    /\ Len(returned) = num_results
    /\ \E k \in 1..Len(issued) : issued[k].failed

\* C4: when the three targeted queries and the broader query all fail, the
\* function has returned the empty list; it never raises.
C4_AllFailReturnsEmpty ==
    /\ s_pc # "raised"
    /\ AllFourFailed => (s_pc = "done" /\ returned = <<>>)

\* C4 witness: the four queries were issued and all failed
C4_Witness == AllFourFailed /\ s_pc = "done"

\* C5: a failing query leaves the accumulator as it was and the run goes on
\* with the next query of the plan: the next targeted query, or the broader
\* query while the cap is not reached; so a run that returns fewer than
\* num_results entries has issued the whole plan, in order.
C5_FailedQuerySkipped ==
    /\ [][(Len(issued') = Len(issued) + 1 /\ issued'[Len(issued')].failed) =>
            /\ profile_urls' = profile_urls
            /\ (s_pc = "targeted_query" /\ i + 1 < Len(queries)) =>
                    (s_pc' = "targeted_query" /\ i' = i + 1)
            /\ (s_pc = "targeted_query" /\ i + 1 = Len(queries)
                    /\ Len(profile_urls) < num_results) =>
                    s_pc' = "broad_query"]_vars
    /\ [](s_pc = "done" /\ Len(returned) < num_results =>
            [k \in 1..Len(issued) |-> issued[k].query] = Append(queries, broader_query))

\* C5 witness: the second query failed after the first one had found a
\* profile, and the third query was run and returned results
C5_Witness ==
    /\ Len(issued) >= 3
    /\ ~issued[1].failed
    /\ issued[2].failed
    /\ ~issued[3].failed
    /\ Len(profile_urls) >= 1

\* C15: the values given to the progress bar during a search never go down
\* and all lie between 0 and 1.
C15_ProgressMonotone ==
    /\ \A k \in 1..Len(progress) :
          /\ 0 <= progress[k].num
          /\ progress[k].num <= progress[k].den
    /\ \A k \in 1..(Len(progress) - 1) :
          progress[k].num * progress[k + 1].den <= progress[k + 1].num * progress[k].den

\* C16: as soon as the accumulator holds num_results entries the function
\* has returned them: no further item is processed and no further query is
\* issued, neither a targeted one nor the broader one.
C16_CapStopsSearch ==
    /\ [](Len(profile_urls) >= num_results =>
             (s_pc = "done" /\ returned = profile_urls))
    /\ [][Len(profile_urls) >= num_results =>
             (issued' = issued /\ profile_urls' = profile_urls /\ j' = j)]_vars

\* C16 witness: the cap of at least two was reached during the second
\* targeted query, and the run ended with two queries issued
C16_Witness ==
    /\ s_pc = "done"
    /\ num_results >= 2
    /\ Len(returned) = num_results
    /\ Len(issued) = 2
    /\ ~issued[1].failed
    /\ ~issued[2].failed

\* positions of the broader query among the queries issued
BroadIssued == {k \in 1..Len(issued) : issued[k].query = "site"}

\* C17: the broader query is issued at most once, as the fourth query after
\* the three targeted ones in their order, and only while the accumulator is
\* below num_results; a run that ends without it has reached the cap, and a
\* run that ends below the cap has issued it.
C17_BroadQueryOnce ==
    /\ [](/\ Cardinality(BroadIssued) <= 1
          /\ \A k \in BroadIssued :
                /\ k = 4
                /\ issued[1].query = "site+description"
                /\ issued[2].query = "inurl+description"
                /\ issued[3].query = "intitle+description"
          /\ s_pc = "done" => (BroadIssued = {} <=> Len(returned) >= num_results
                                                     /\ Len(issued) <= 3))
    /\ [][(Len(issued') = Len(issued) + 1 /\ issued'[Len(issued')].query = "site") =>
             (Len(issued) = 3 /\ Len(profile_urls) < num_results)]_vars

\* C17 witness: the three targeted queries found one profile, the broader
\* query was issued and the run ended below the cap
C17_Witness ==
    /\ s_pc = "done"
    /\ BroadIssued = {4}
    /\ ~issued[4].failed
    /\ Len(returned) >= 1
    /\ Len(returned) < num_results

\* C22: a run issues at most four queries, each query of the plan (the
\* three targeted ones and the broader one) at most once, whatever the
\* queries return and whichever of them fail, and it ends.
C22_EndsWithinFourQueries ==
    /\ [](/\ Len(issued) <= 4
          /\ \A k \in 1..Len(issued) :
                issued[k].query \in {"site+description", "inurl+description",
                                     "intitle+description", "site"}
          /\ \A a, b \in 1..Len(issued) : a # b => issued[a].query # issued[b].query)
    /\ <>(s_pc = "done")

\* C22 witness: a run that ended after four queries, the first of which
\* found a profile and the last of which failed
C22_Witness ==
    /\ s_pc = "done"
    /\ Len(issued) = 4
    /\ ~issued[1].failed
    /\ issued[4].failed
    /\ Len(returned) >= 1

(***************************************************************************)
(* Properties of process_linkedin_profile and of the batch loop             *)
(***************************************************************************)
\* the requests of kind op made for the profile at index k of the batch
CallsFor(k, op) == {c \in 1..Len(calls) : calls[c].profile = k /\ calls[c].op = op}
Sends(k) == CallsFor(k, "message") \cup CallsFor(k, "invite")

\* C1: a result whose provider id is resolved comes after a message attempt,
\* and the send results decide it: message sent => Message/Success; message
\* failed and invite sent => Connection Request/Success; both failed =>
\* Connection Request/Failed with the error text send_connection_request
\* returned.
C1_OutcomeBySendResults ==
    \A n \in 1..Len(results) :
        LET r == results[n]
            msg == CallsFor(n - 1, "message")
            inv == CallsFor(n - 1, "invite")
        IN  /\ Truthy(r.provider_id) => msg # {}
            /\ \A m \in msg :
                /\ calls[m].success =>
                      (r.action = "Message" /\ r.status = "Success" /\ inv = {})
                /\ ~calls[m].success =>
                      /\ inv # {}
                      /\ \A c \in inv :
                          /\ calls[c].success =>
                                (r.action = "Connection Request" /\ r.status = "Success")
                          /\ ~calls[c].success =>
                                /\ r.action = "Connection Request"
                                /\ r.status = "Failed"
                                /\ r.error = PyStr(calls[c].reply)

\* C1 witness: a batch of two resolved profiles, one delivered by the invite
\* after a failed message, one for which both sends failed
C1_Witness ==
    /\ Len(results) = 2
    /\ Truthy(results[1].provider_id)
    /\ results[1].action = "Connection Request" /\ results[1].status = "Success"
    /\ Truthy(results[2].provider_id)
    /\ results[2].action = "Connection Request" /\ results[2].status = "Failed"

\* C6: no exception leaves the processing of a profile, and a finished batch
\* has one result per input URL, in input order, each Success or Failed.
C6_NoExceptionEscapes ==
    /\ pc # "raised"
    /\ pc = "done" =>
          /\ Len(results) = Len(linkedin_urls)
          /\ \A n \in 1..Len(results) :
                /\ results[n].url = linkedin_urls[n]
                /\ results[n].status \in {"Success", "Failed"}

\* C7: every returned result has one terminal (action, status) pair, and its
\* action is None exactly when neither send_message nor
\* send_connection_request was called for the profile; its status is then
\* Failed.
C7_ActionNoneIffNoSend ==
    /\ Len(results) = url_i
    /\ \A n \in 1..Len(results) :
          LET r == results[n]
          IN  /\ r.status \in {"Success", "Failed"}
              /\ r.action \in {"None", "Message", "Connection Request"}
              /\ r.action = "None" <=> Sends(n - 1) = {}
              /\ r.action = "None" => r.status = "Failed"

\* C7 witness: one profile failed before any send, the next one got a message
C7_Witness ==
    /\ Len(results) = 2
    /\ results[1].action = "None"
    /\ CallsFor(0, "resolve") # {}
    /\ results[2].action = "Message"

\* the resolve request of profile k got a 2xx answer, a JSON object without
\* a provider_id field
ResolvedWithoutField(k) ==
    \E c \in CallsFor(k, "resolve") :
        calls[c].kind = "ok" /\ calls[c].is_dict /\ ~calls[c].has_provider_id

\* C8: a 2xx answer without a provider_id field ends the profile as a failed
\* lookup does: status Failed, action None, provider_id unset, the
\* resolver's missing-provider_id reason as error, and nothing sent.
C8_MissingProviderIdFails ==
    \A n \in 1..Len(results) :
        ResolvedWithoutField(n - 1) =>
            /\ results[n].status = "Failed"
            /\ results[n].action = "None"
            /\ results[n].provider_id = PyNone
            /\ results[n].error = PyStr(<<"Could not find provider_id in the response">>)
            /\ Sends(n - 1) = {}
            /\ CallsFor(n - 1, "job_title") = {}

\* C8 witness: the second profile of a batch got the answer without the field
C8_Witness == Len(results) = 2 /\ ResolvedWithoutField(1)

\* a value that is no profile URL: no string, empty, or without /in/
HasInSegment(chars) == \E p \in 1..Len(chars) : StartsAt(chars, p, <<"/", "i", "n", "/">>)
NotProfileUrl(v) == v.type # "str" \/ v.val = <<>> \/ ~HasInSegment(v.val)

\* C9: for a value that is no profile URL the extraction returns None, the
\* pipeline never gets past step 1, the result is Failed with action None
\* and the could-not-extract error, and no request is made for the profile.
C9_NonProfileUrlFailsEarly ==
    /\ \A n \in 1..Len(linkedin_urls) :
          NotProfileUrl(linkedin_urls[n]) =>
              /\ extract_linkedin_username(linkedin_urls[n]) = PyNone
              /\ \A c \in 1..Len(calls) : calls[c].profile # n - 1
              /\ url_i = n - 1 => pc \in {"button", "profile"}
              /\ n <= Len(results) =>
                    /\ results[n].status = "Failed"
                    /\ results[n].action = "None"
                    /\ Len(results[n].error.val) > 0
                    /\ results[n].error.val[1] = "Could not extract username from URL: "

\* C9 witness: a batch of a non-string and a URL without /in/, both processed
C9_Witness ==
    /\ Len(results) = 2
    /\ linkedin_urls[1].type # "str"
    /\ linkedin_urls[2] = PyStr(URL_COMPANY)

(***************************************************************************)
(* Properties of the personalization                                        *)
(***************************************************************************)
\* The text obtained from s by substituting, at every place where pairs[k].old
\* occurs, pairs[k].new, all in one pass and with everything else kept. It
\* is built position by position from the occurrences; the placeholders
\* cannot overlap, each holding a single "{", at its start.
RECURSIVE SumTo(_, _)
SumTo(f, n) == IF n = 0 THEN 0 ELSE f[n] + SumTo(f, n - 1)

RefSubst(s, pairs) ==
    LET occ == {o \in (1..Len(s)) \X (1..Len(pairs)) : StartsAt(s, o[1], pairs[o[2]].old)}
        grow == [k \in 1..Len(pairs) |-> Len(pairs[k].new) - Len(pairs[k].old)]
        \* how far the text before position p has grown
        shift == [p \in 1..(Len(s) + 1) |->
                    SumTo([k \in 1..Len(pairs) |->
                              Cardinality({o \in occ : o[2] = k /\ o[1] < p}) * grow[k]],
                          Len(pairs))]
        \* positions of s outside every occurrence
        free == {p \in 1..Len(s) :
                    \A o \in occ : p < o[1] \/ p >= o[1] + Len(pairs[o[2]].old)}
    IN  [x \in 1..(Len(s) + shift[Len(s) + 1]) |->
            IF \E p \in free : p + shift[p] = x
            THEN s[CHOOSE p \in free : p + shift[p] = x]
            ELSE LET o == CHOOSE o \in occ :
                              /\ o[1] + shift[o[1]] <= x
                              /\ x < o[1] + shift[o[1]] + Len(pairs[o[2]].new)
                 IN  pairs[o[2]].new[x - (o[1] + shift[o[1]]) + 1]]

\* first character upper-cased, the others as they are
UpperFirstRestKept(u) == [k \in 1..Len(u) |-> IF k = 1 THEN ToUpper(u[k]) ELSE u[k]]
\* first character upper-cased, the others lower-cased
UpperFirstRestLower(u) == [k \in 1..Len(u) |-> IF k = 1 THEN ToUpper(u[k]) ELSE ToLower(u[k])]

TemplateOf(call) == IF call.op = "message" THEN message_text ELSE connection_text
SendCalls == {c \in 1..Len(calls) : calls[c].op \in {"message", "invite"}}

\* C10 as stated: with personalization, the text sent is the template with
\* every {name} replaced by the username, first character upper-cased and
\* the others unchanged, and every {job_title} replaced by the job title,
\* nothing else altered.
C10_AsStated ==
    personalize =>
        \A c \in SendCalls :
            calls[c].text =
                RefSubst(TemplateOf(calls[c]),
                         << [old |-> <<"{", "n", "a", "m", "e", "}">>,
                             new |-> UpperFirstRestKept(result.username.val)],
                            [old |-> <<"{", "j", "o", "b", "_", "t", "i", "t", "l", "e", "}">>,
                             new |-> result.job_title.val] >>)

\* C10 amended: with personalization, the text sent is the template with
\* every {name} replaced by the username, first character upper-cased and
\* the others lower-cased, and then every {job_title} of that text replaced
\* by the job title, nothing else altered.
C10_PersonalizedText ==
    personalize =>
        \A c \in SendCalls :
            calls[c].text =
                RefSubst(RefSubst(TemplateOf(calls[c]),
                                  << [old |-> <<"{", "n", "a", "m", "e", "}">>,
                                      new |-> UpperFirstRestLower(result.username.val)] >>),
                         << [old |-> <<"{", "j", "o", "b", "_", "t", "i", "t", "l", "e", "}">>,
                             new |-> result.job_title.val] >>)

\* C10 witness: "Hi {name}, {job_title} {name}}" was sent to bOb, an Eng, as
\* "Hi Bob, Eng Bob}"
C10_Witness ==
    /\ personalize
    /\ result.username = PyStr(<<"b", "O", "b">>)
    /\ \E c \in SendCalls :
          /\ calls[c].op = "message"
          /\ TemplateOf(calls[c]) = <<"H", "i", " ", "{", "n", "a", "m", "e", "}", ",", " ", "{", "j", "o", "b", "_", "t", "i", "t", "l", "e", "}", " ", "{", "n", "a", "m", "e", "}", "}">>
          /\ calls[c].text = <<"H", "i", " ", "B", "o", "b", ",", " ", "E", "n", "g", " ", "B", "o", "b", "}">>

(***************************************************************************)
(* Properties of extract_linkedin_username                                  *)
(***************************************************************************)
\* C14: every way of writing the profile URL of a username (http or https,
\* with or without a trailing slash, with or without a query string) yields
\* that username, letter case kept: it is the username the pipeline works
\* with and the one in the returned result.
C14_SameUsernameForVariants ==
    \A n \in 1..Len(linkedin_urls) :
        \A u \in {<<"b", "O", "b">>, <<"A", "m", "y", "-", "1">>} :
            linkedin_urls[n].val \in ProfileUrls(u) =>
                /\ (url_i = n - 1 /\ pc \notin {"button", "profile"}) =>
                       result.username = PyStr(u)
                /\ n <= Len(results) => results[n].username = PyStr(u)

\* C14 witness: the username was taken from an http URL with www., a
\* trailing slash and a query string that holds /in/ itself
C14_Witness ==
    /\ linkedin_urls = <<PyStr(<<"h", "t", "t", "p", ":", "/", "/", "w", "w", "w", ".", "l", "i", "n", "k", "e", "d", "i", "n", ".", "c", "o", "m", "/", "i", "n", "/", "b", "O", "b", "/", "?", "r", "=", "/", "i", "n", "/", "z", "e", "d">>)>>
    /\ pc = "resolve"
    /\ result.username = PyStr(<<"b", "O", "b">>)

(***************************************************************************)
(* Properties of the pipeline's steps                                       *)
(***************************************************************************)
\* C11: without personalization no job title is fetched, and every message
\* and every connection request carries the caller's template, character
\* for character.
C11_TemplatesVerbatim ==
    ~personalize =>
        /\ result.job_title = PyNone
        /\ \A c \in 1..Len(calls) :
              /\ calls[c].op # "job_title"
              /\ calls[c].op = "message" => calls[c].text = message_text
              /\ calls[c].op = "invite" => calls[c].text = connection_text

\* C11 witness: without personalization, templates holding placeholders were
\* sent as a message and then as a connection request
C11_Witness ==
    /\ ~personalize
    /\ message_text = <<"H", "i", " ", "{", "n", "a", "m", "e", "}", ",", " ", "{", "j", "o", "b", "_", "t", "i", "t", "l", "e", "}", " ", "{", "n", "a", "m", "e", "}", "}">>
    /\ connection_text = <<"{", "j", "o", "b", "_", "t", "i", "t", "l", "e", "{", "n", "a", "m", "e", "}">>
    /\ CallsFor(0, "message") # {}
    /\ CallsFor(0, "invite") # {}

\* C12: what extract_job_title returned is a string, whatever the directory
\* answered.
C12_JobTitleIsString ==
    (Len(calls) > 0 /\ calls[Len(calls)].op = "job_title") =>
        /\ result.job_title.type = "str"
        /\ Len(result.job_title.val) > 0

\* the counters of a result list, folded element by element
RECURSIVE FoldCount(_, _, _)
FoldCount(list, statuses, actions) ==
    IF list = <<>> THEN 0
    ELSE (IF Head(list).status \in statuses /\ Head(list).action \in actions THEN 1 ELSE 0)
         + FoldCount(Tail(list), statuses, actions)

AnyAction == {"None", "Message", "Connection Request"}

RefSummary(list) ==
    [total |-> Len(list),
     success_count |-> FoldCount(list, {"Success"}, AnyAction),
     message_count |-> FoldCount(list, {"Success"}, {"Message"}),
     connection_count |-> FoldCount(list, {"Success"}, {"Connection Request"})]

SumSummaries(a, b) ==
    [total |-> a.total + b.total,
     success_count |-> a.success_count + b.success_count,
     message_count |-> a.message_count + b.message_count,
     connection_count |-> a.connection_count + b.connection_count]

\* C13: the summary of a finished batch is the fold of its result list
\* (successes, successful messages, successful connection requests, length),
\* and the summary of a list equals the field-wise sum of the summaries of
\* the two parts of any split of it.
C13_SummaryIsFold ==
    /\ pc = "done" => summary = RefSummary(results)
    /\ \A k \in 0..Len(results) :
          Summarize(results) =
              SumSummaries(Summarize(SubSeq(results, 1, k)),
                           Summarize(SubSeq(results, k + 1, Len(results))))

\* C13 witness: a finished batch of a delivered message and a connection
\* request that failed
C13_Witness ==
    /\ pc = "done"
    /\ Len(results) = 2
    /\ results[1].action = "Message" /\ results[1].status = "Success"
    /\ results[2].action = "Connection Request" /\ results[2].status = "Failed"
    /\ summary.success_count = 1
    /\ summary.connection_count = 0

\* C18: for one profile each of the lookup, the job title fetch, the message
\* and the connection request is requested at most once, and the username
\* extraction is entered once per profile: the pipeline comes back to its
\* first step only for the next profile of the batch.
C18_NoStepRetried ==
    /\ [](\A k \in 0..(Len(linkedin_urls) - 1) :
            \A op \in {"resolve", "job_title", "message", "invite"} :
                Cardinality(CallsFor(k, op)) <= 1)
    /\ [][pc' = "profile" => (pc = "button" \/ url_i' = url_i + 1)]_vars

\* C18 witness: both sends of the first profile failed and the pipeline went
\* on to the second profile
C18_Witness ==
    /\ \E m \in CallsFor(0, "message") : ~calls[m].success
    /\ \E c \in CallsFor(0, "invite") : ~calls[c].success
    /\ CallsFor(1, "resolve") # {}

\* C19: a connection request directly follows a failed message to the same
\* profile, and only that; a failed message, whatever the failure, is
\* followed by the connection request (or the pipeline stands right before
\* it); after a delivered message no connection request is made.
C19_InviteIffMessageFailed ==
    /\ \A c \in 1..Len(calls) :
          calls[c].op = "invite" =>
              /\ c > 1
              /\ calls[c - 1].op = "message"
              /\ calls[c - 1].profile = calls[c].profile
              /\ ~calls[c - 1].success
    /\ \A c \in 1..Len(calls) :
          calls[c].op = "message" =>
              IF calls[c].success
              THEN CallsFor(calls[c].profile, "invite") = {}
              ELSE \/ /\ c < Len(calls)
                      /\ calls[c + 1].op = "invite"
                      /\ calls[c + 1].profile = calls[c].profile
                   \/ /\ c = Len(calls)
                      /\ pc = "send_connection_request"
                      /\ url_i = calls[c].profile

\* C19 witness: a message rejected with 403 was followed by the connection
\* request, and the message to the next profile was delivered
C19_Witness ==
    /\ \E m \in CallsFor(0, "message") : calls[m].kind = "http_error"
    /\ CallsFor(0, "invite") # {}
    /\ \E m \in CallsFor(1, "message") : calls[m].success
    /\ Len(results) = 2

\* C20: every message and every connection request carries a provider id
\* that is not None, the one the lookup of that profile returned; and a
\* profile whose lookup returned no provider id ends Failed with action None
\* and nothing sent.
C20_SendsNeedProviderId ==
    /\ \A c \in 1..Len(calls) :
          calls[c].op \in {"message", "invite"} =>
              /\ calls[c].provider_id # PyNone
              /\ \E r \in CallsFor(calls[c].profile, "resolve") :
                    calls[r].provider_id = calls[c].provider_id
    /\ \A n \in 1..Len(results) :
          (\E r \in CallsFor(n - 1, "resolve") : calls[r].provider_id = PyNone) =>
              /\ results[n].status = "Failed"
              /\ results[n].action = "None"
              /\ Sends(n - 1) = {}

\* C23: the summary, and with it the success rate, is computed only for a
\* batch with at least one result: an empty batch is turned down at the
\* button, before the loop, and nothing is divided by zero.
C23_NoRateForEmptyBatch ==
    /\ Len(linkedin_urls) = 0 =>
          (pc \in {"button", "rejected"} /\ results = <<>> /\ summary = <<>>)
    /\ pc = "done" => (Len(results) >= 1 /\ summary.total >= 1)

\* C23 witness: the button was pressed with an empty batch
C23_Witness == Len(linkedin_urls) = 0 /\ pc = "rejected"

\* C25: the list kept in the session state is the list the last non-empty
\* discovery returned: it changes only when a discovery returns a non-empty
\* list, and then to that list; assembling the batch leaves it alone.
C25_FoundProfilesKept ==
    /\ [](returned # <<>> =>
             found_profiles = [k \in 1..Len(returned) |-> PyStr(returned[k])])
    /\ [][found_profiles' # found_profiles =>
             /\ returned' # <<>>
             /\ found_profiles' = [k \in 1..Len(returned') |-> PyStr(returned'[k])]]_vars

(***************************************************************************)
(* Properties of the results and of the summary                             *)
(***************************************************************************)
\* the lookup or the connection request of profile k got a non-2xx answer
\* (every such answer of the model has the body "body")
RejectedWithBody(k) ==
    \E c \in CallsFor(k, "resolve") \cup CallsFor(k, "invite") :
        calls[c].kind = "http_error"

\* C21: when the lookup or the connection request of a profile got a non-2xx
\* answer with a body, the profile's result is Failed and its error text
\* holds the body of that answer.
C21_BodyInError ==
    \A n \in 1..Len(results) :
        RejectedWithBody(n - 1) =>
            /\ results[n].status = "Failed"
            /\ \E x \in 1..Len(results[n].error.val) : results[n].error.val[x] = "body"

\* C24: a Success result has no error, even when the message failed before
\* the connection request went through, and a Failed result has an error
\* that is a non-empty string.
C24_ErrorMatchesStatus ==
    \A n \in 1..Len(results) :
        /\ results[n].status = "Success" => results[n].error = PyNone
        /\ results[n].status = "Failed" =>
              (results[n].error.type = "str" /\ Len(results[n].error.val) > 0)

\* C24 witness: a connection request that went through after a failed
\* message, then a profile that failed at the lookup
C24_Witness ==
    /\ Len(results) = 2
    /\ results[1].action = "Connection Request" /\ results[1].status = "Success"
    /\ \E m \in CallsFor(0, "message") : ~calls[m].success
    /\ results[2].action = "None" /\ results[2].status = "Failed"
    /\ CallsFor(1, "resolve") # {}

\* C26: every successful result has action Message or Connection Request,
\* so the summary of a finished batch has success_count = message_count +
\* connection_count and success_count <= total.
C26_SuccessCountSplits ==
    /\ \A n \in 1..Len(results) :
          results[n].status = "Success" =>
              results[n].action \in {"Message", "Connection Request"}
    /\ pc = "done" =>
          /\ summary.success_count = summary.message_count + summary.connection_count
          /\ summary.success_count <= summary.total

\* C26 witness: a finished batch with one delivered message and one
\* connection request that went through
C26_Witness ==
    /\ pc = "done"
    /\ summary.total = 2
    /\ summary.message_count = 1
    /\ summary.connection_count = 1

====
